---- MODULE Spec2Model ----
(***************************************************************************)
(* Microblogging backend (server/api): the relational store (users,        *)
(* tweets, media, followers, likes) and the request handlers of            *)
(* server/api/routers.py.  Every handler runs in its own database session  *)
(* (server/database/db_connection.py get_db); each awaited statement is a  *)
(* point where another request may run, so a handler is a sequence of      *)
(* steps: its reads, then its commit.  Reads of the users table, which no  *)
(* handler ever writes, are merged into the step that follows them.        *)
(***************************************************************************)
EXTENDS Integers, Sequences, FiniteSets, Bags, TLC

\* ------------------------------------------------------------------ bounds
NUsers == 3          \* rows of the users table (no handler adds or removes one)
MaxTweets == 2       \* tweets ever created (tweets.id autoincrement)
MaxMedia == 1        \* media ever uploaded (media.id autoincrement)
MaxFollowRows == 3   \* follow rows ever inserted (followers.id autoincrement)
MaxLikeRows == 2     \* like rows ever inserted (likes.id autoincrement)
MaxInFlight == 2     \* requests being handled at the same time
MaxRequestRows == 1  \* follow rows, and like rows, of the stores of InitRequest

Users == 1..NUsers
UserIds == 1..(NUsers + 1)      \* path parameter idx: the last one names no user
TweetIds == 1..MaxTweets        \* path parameter idx of the tweet routes
NULL == 0                       \* SQL NULL / Python None in an integer column

\* users.api_key (unique, not null): user u holds key u; BadKey is held by nobody
api_key(u) == u
BadKey == 0
ApiKeys == {api_key(u) : u \in Users} \cup {BadKey}
\* users.name
name(u) == 10 + u

VARIABLES
    tweets,      \* table tweets: rows [id, user_id, attachment]
    media,       \* table media: rows [id, file_link, tweet_id]
    followers,   \* table followers (model Follow): rows [id, user_id, follower_id]
    likes,       \* table likes (model Like): rows [id, user_id, tweet_id]
    lastId,      \* the autoincrement sequence of each table
    bucket,      \* object storage: the links whose bytes the bucket holds
    req,         \* the requests being handled: the bag of the handlers' locals
    resp,        \* the response sent by the latest step (NoResp when it sent none)
    client       \* the test client: its place in a scenario and what it recorded

vars == <<tweets, media, followers, likes, lastId, bucket, req, resp, client>>
store == <<tweets, media, followers, likes, lastId, bucket>>

\* ----------------------------------------------------------- requests
Idle == [op |-> "idle", pc |-> "idle", user |-> NULL, idx |-> NULL,
         row |-> NULL, ids |-> {}, out |-> <<>>]

NoResp == [op |-> "none", user |-> NULL, idx |-> NULL, status |-> 0,
           detail |-> "", id |-> NULL, tweets |-> <<>>,
           followers |-> <<>>, followings |-> <<>>]

\* a response of handler op called by user with path parameter idx
Response(op, user, idx, status, detail) ==
    [NoResp EXCEPT !.op = op, !.user = user, !.idx = idx,
                   !.status = status, !.detail = detail]

\* HTTPException(status_code, detail) raised by a handler
HTTPException(r, status, detail) == Response(r.op, r.user, r.idx, status, detail)
\* an exception no handler catches: the framework answers 500
ServerError(r, what) == Response(r.op, r.user, r.idx, 500, what)
\* the handler's return {"result": True}
ResultTrue(r) == Response(r.op, r.user, r.idx, 200, "")

\* the test client outside any scenario
NoScenario == [pc |-> "idle", x |-> NULL, y |-> NULL, before |-> {}]

\* a worker is free to take a new request
FreeSlot == BagCardinality(req) < MaxInFlight

\* how many requests of handler op stand at pc
Pending(op, pc) ==
    BagCardinality([r \in {x \in BagToSet(req) : x.op = op /\ x.pc = pc} |-> req[r]])

\* the first step of a request sends response a and ends the request
Reply(a) == /\ req' = req
            /\ resp' = a
            /\ UNCHANGED client

\* the first step of a request sends nothing; the handler goes on with locals r
Accept(r) == /\ req' = req (+) SetToBag({r})
             /\ resp' = NoResp
             /\ UNCHANGED client

\* a later step of request r sends response a and ends the request
Finish(r, a) == /\ req' = req (-) SetToBag({r})
                /\ resp' = a
                /\ UNCHANGED client

\* a later step of request r sends nothing; the handler goes on with locals r2
Goto(r, r2) == /\ req' = (req (-) SetToBag({r})) (+) SetToBag({r2})
               /\ resp' = NoResp
               /\ UNCHANGED client

\* ------------------------------------------------------------ services
\* get_current_user: the user holding the key, None (NULL) when nobody does
get_current_user(key) ==
    IF \E u \in Users : api_key(u) = key
    THEN CHOOSE u \in Users : api_key(u) = key
    ELSE NULL

\* get_user_by_id: the user with that id, None (NULL) when there is none
get_user_by_id_unchecked(user_id) == user_id
get_user_by_id(user_id) ==
    IF user_id \in Users THEN user_id ELSE NULL

\* select(Follow).where(Follow.user_id == u, Follow.follower_id == f)
existing_follow(u, f) ==
    {row \in followers : row.user_id = u /\ row.follower_id = f}

\* UniqueConstraint("user_id", "follower_id", name="unique_follow"):
\* whether the table rows accept a new row (u, f)
unique_follow_off(rows, u, f) == TRUE
unique_follow(rows, u, f) ==
    ~ \E row \in rows : row.user_id = u /\ row.follower_id = f

\* ------------------------------------------------------- follow / unfollow
\* follow_user, up to the existence check (routers.py 156-169)
follow_user_keep_self(user, follower) == FALSE
follow_user_is_self(user, follower) == user = follower

follow_user(key, idx) ==
    /\ FreeSlot
    /\ LET user == get_current_user(key)
           follower == get_user_by_id(idx)
           r == [Idle EXCEPT !.op = "follow", !.user = user, !.idx = idx]
       IN  IF user = NULL
           THEN Reply(HTTPException(r, 403, "Invalid API key"))
           ELSE IF follower = NULL
           THEN Reply(HTTPException(r, 404, "User not found"))
           ELSE IF follow_user_is_self(user, follower)
           THEN Reply(HTTPException(r, 400, "You cannot follow yourself"))
           ELSE IF existing_follow(user, follower) # {}
           THEN Reply(HTTPException(r, 400, "You are already following this user"))
           ELSE /\ lastId.followers + Pending("follow", "commit") < MaxFollowRows
                /\ Accept([r EXCEPT !.pc = "commit"])
    /\ UNCHANGED store

\* new_follow = Follow(user_id=current_user.id, follower_id=follower.id)
new_follow_swapped(id, user, follower) ==
    [id |-> id, user_id |-> follower, follower_id |-> user]
new_follow(id, user, follower) ==
    [id |-> id, user_id |-> user, follower_id |-> follower]

\* follow_user: db.add(new_follow); await db.commit() (routers.py 171-176)
follow_user_commit(r) ==
    /\ r \in BagToSet(req) /\ r.op = "follow" /\ r.pc = "commit"
    /\ IF unique_follow(followers, r.user, r.idx)
       THEN /\ followers' = followers \cup
                  {new_follow(lastId.followers + 1, r.user, r.idx)}
            /\ lastId' = [lastId EXCEPT !.followers = @ + 1]
            /\ Finish(r, ResultTrue(r))
       ELSE /\ UNCHANGED <<followers, lastId>>
            /\ Finish(r, ServerError(r, "IntegrityError"))
    /\ UNCHANGED <<tweets, media, likes, bucket>>

\* unfollow_user, up to the existence check (routers.py 194-204);
\* scalars().first() takes any one of the rows found
unfollow_user(key, idx) ==
    /\ FreeSlot
    /\ LET user == get_current_user(key)
           follower == get_user_by_id(idx)
           r == [Idle EXCEPT !.op = "unfollow", !.user = user, !.idx = idx]
       IN  IF user = NULL
           THEN Reply(HTTPException(r, 403, "Invalid API key"))
           ELSE IF follower = NULL
           THEN Reply(HTTPException(r, 404, "User not found"))
           ELSE IF existing_follow(user, follower) = {}
           THEN Reply(HTTPException(r, 400, "You are not following this user"))
           ELSE \E follow \in existing_follow(user, follower) :
                    Accept([r EXCEPT !.pc = "commit", !.row = follow.id])
    /\ UNCHANGED store

\* DELETE FROM followers WHERE followers.id = :id
delete_follow_kept(rows, id) == rows
delete_follow_of_user(rows, id) ==
    {row \in rows : \A d \in rows : d.id = id => row.user_id # d.user_id}
delete_follow(rows, id) == {row \in rows : row.id # id}

\* unfollow_user: await db.delete(follow); await db.commit() (routers.py 206-209).
\* The DELETE names the row by its primary key; a row another request already
\* deleted matches nothing, which the mapper only warns about.
unfollow_user_commit(r) ==
    /\ r \in BagToSet(req) /\ r.op = "unfollow" /\ r.pc = "commit"
    /\ followers' = delete_follow(followers, r.row)
    /\ Finish(r, ResultTrue(r))
    /\ UNCHANGED <<tweets, media, likes, lastId, bucket>>

\* ------------------------------------------------------------ tweets
MediaIds == 1..(MaxMedia + 1)   \* tweet_media_ids: the last one names no media
NoAttachment == <<NULL>>        \* tweets.attachment is NULL (the column's default)
\* file_link of the media row with this id: one fresh uuid4 name per upload
file_link(id) == 100 + id

\* await db.get(Tweet, idx): the rows with that primary key (none or one)
get_tweet(idx) == {t \in tweets : t.id = idx}

\* every sequence that lists the members of S once each: the orders in which a
\* SELECT without a deciding ORDER BY may return them
Orderings(S) ==
    {f \in [1..Cardinality(S) -> S] :
        \A i, j \in 1..Cardinality(S) : i # j => f[i] # f[j]}

\* create_new_tweet: db.add(new_tweet); commit; refresh (routers.py 54-60)
create_new_tweet(key, tweet_media_ids) ==
    /\ FreeSlot
    /\ LET user == get_current_user(key)
           r == [Idle EXCEPT !.op = "create", !.user = user]
           new_id == lastId.tweets + 1
       IN  IF user = NULL
           THEN /\ Reply(HTTPException(r, 403, "Invalid API key"))
                /\ UNCHANGED <<tweets, lastId>>
           ELSE /\ lastId.tweets < MaxTweets
                /\ tweets' = tweets \cup
                      {[id |-> new_id, user_id |-> user, attachment |-> NoAttachment]}
                /\ lastId' = [lastId EXCEPT !.tweets = new_id]
                /\ IF tweet_media_ids = {}
                   THEN Reply([ResultTrue(r) EXCEPT !.id = new_id])
                   ELSE Accept([r EXCEPT !.pc = "attach", !.row = new_id,
                                          !.ids = tweet_media_ids])
    /\ UNCHANGED <<media, followers, likes, bucket>>

\* select(Media).where(Media.id.in_(tweet.tweet_media_ids)) (routers.py 61-64)
select_media_all(ids) == media
select_media(ids) == {m \in media : m.id \in ids}

\* [media.file_link for media in media_files] (routers.py 69)
attachment_ids(files) == [i \in 1..Len(files) |-> files[i].id]
attachment_links(files) == [i \in 1..Len(files) |-> files[i].file_link]

\* create_new_tweet: select the media, point them at the tweet, copy their
\* links onto it, commit (routers.py 61-73).  The UPDATE of a tweet row that a
\* concurrent delete removed matches nothing (StaleDataError) and the media
\* rows' new tweet_id breaks their foreign key: the commit raises.
create_new_tweet_attach(r) ==
    /\ r \in BagToSet(req) /\ r.op = "create" /\ r.pc = "attach"
    /\ LET media_files == select_media(r.ids)
       IN  IF get_tweet(r.row) = {}
           THEN /\ UNCHANGED <<tweets, media>>
                /\ Finish(r, ServerError(r, "StaleDataError"))
           ELSE \E files \in Orderings(media_files) :
                /\ media' = {IF m \in media_files
                             THEN [m EXCEPT !.tweet_id = r.row] ELSE m : m \in media}
                /\ tweets' = {IF t.id = r.row
                              THEN [t EXCEPT !.attachment = attachment_links(files)]
                              ELSE t : t \in tweets}
                /\ Finish(r, [ResultTrue(r) EXCEPT !.id = r.row])
    /\ UNCHANGED <<followers, likes, lastId, bucket>>

\* S3Client.upload_file_obj (models.py 174-190): put_object stores the bytes
\* ("stored"), or raises ClientError, which is printed and swallowed
\* ("ClientError"), or raises anything else, which propagates ("Exception")
S3Outcomes == {"stored", "ClientError", "Exception"}

\* upload_media (routers.py 90-107); no credential is asked for
upload_media(outcome) ==
    /\ FreeSlot
    /\ LET r == [Idle EXCEPT !.op = "upload"]
           new_id == lastId.media + 1
       IN  IF outcome = "Exception"
           THEN /\ UNCHANGED <<media, lastId, bucket>>
                /\ Reply(HTTPException(r, 500, "Failed to upload media"))
           ELSE /\ lastId.media < MaxMedia
                /\ bucket' = IF outcome = "stored"
                             THEN bucket \cup {file_link(new_id)} ELSE bucket
                /\ media' = media \cup
                      {[id |-> new_id, file_link |-> file_link(new_id),
                        tweet_id |-> NULL]}
                /\ lastId' = [lastId EXCEPT !.media = new_id]
                /\ Reply([ResultTrue(r) EXCEPT !.id = new_id])
    /\ UNCHANGED <<tweets, followers, likes>>

\* if tweet.user_id != user.id (routers.py 130)
not_own_tweet_off(tweet, user) == FALSE
not_own_tweet(tweet, user) == tweet.user_id # user

\* delete_own_tweet, up to the ownership check (routers.py 125-133)
delete_own_tweet(key, idx) ==
    /\ FreeSlot
    /\ LET user == get_current_user(key)
           r == [Idle EXCEPT !.op = "delete", !.user = user, !.idx = idx]
       IN  IF user = NULL
           THEN Reply(HTTPException(r, 403, "Invalid API key"))
           ELSE IF get_tweet(idx) = {}
           THEN Reply(HTTPException(r, 404, "Tweet not found"))
           ELSE IF \E tweet \in get_tweet(idx) : not_own_tweet(tweet, user)
           THEN Reply(HTTPException(r, 403, "You can only delete your own tweets"))
           ELSE Accept([r EXCEPT !.pc = "commit", !.row = idx])
    /\ UNCHANGED store

\* What the flush of db.delete(tweet) does to the rows of the backrefs
\* Tweet.likes and Tweet.media_files (models.py 83, 128): neither relationship
\* declares a delete cascade, so the rows that refer to the tweet are
\* de-associated, their tweet_id set to NULL.  likes.tweet_id is nullable=False
\* (models.py 80): with such a row the UPDATE fails and the commit raises.
likes_block_delete(idx) == \E l \in likes : l.tweet_id = idx

\* DELETE FROM tweets WHERE tweets.id = idx
delete_tweet_row_kept(rows, idx) == rows
delete_tweet_row(rows, idx) == {t \in rows : t.id # idx}

\* UPDATE media SET tweet_id = NULL WHERE media.tweet_id = idx: the flush
\* de-associates the media_files of the tweet being deleted (models.py 126-128)
deassociate_media_kept(rows, idx) == rows
deassociate_media(rows, idx) ==
    {IF m.tweet_id = idx THEN [m EXCEPT !.tweet_id = NULL] ELSE m : m \in rows}

\* The commit that raises leaves the handler; get_db closes the session
\* (db_connection.py 42-43) and the open transaction, with what the flush had
\* already written in it, is rolled back: the table is as last committed.
rollback_lost(committed, flushed) == flushed
rollback(committed, flushed) == committed

\* delete_own_tweet: await db.delete(tweet); await db.commit() (routers.py 135-138)
delete_own_tweet_commit(r) ==
    /\ r \in BagToSet(req) /\ r.op = "delete" /\ r.pc = "commit"
    /\ IF likes_block_delete(r.row)
       THEN /\ tweets' = tweets
            /\ media' = rollback(media, deassociate_media(media, r.row))
            /\ Finish(r, ServerError(r, "IntegrityError"))
       ELSE /\ media' = deassociate_media(media, r.row)
            /\ tweets' = delete_tweet_row(tweets, r.row)
            /\ Finish(r, ResultTrue(r))
    /\ UNCHANGED <<followers, likes, lastId, bucket>>

\* ------------------------------------------------------------- likes
\* select(Like).where(Like.user_id == u, Like.tweet_id == t)
existing_like_of_anyone(u, t) == {l \in likes : l.tweet_id = t}
existing_like(u, t) == {l \in likes : l.user_id = u /\ l.tweet_id = t}

\* the constraints of table likes on a new row (models.py 76-83): the foreign
\* key to tweets.id; the model declares no unique constraint
likes_accepts_off(rows, u, t) == TRUE
likes_accepts(rows, u, t) == get_tweet(t) # {}

\* like_to_tweet: tweet = await db.get(Tweet, idx) (routers.py 227-230)
like_to_tweet(key, idx) ==
    /\ FreeSlot
    /\ LET user == get_current_user(key)
           r == [Idle EXCEPT !.op = "like", !.user = user, !.idx = idx]
       IN  IF user = NULL
           THEN Reply(HTTPException(r, 403, "Invalid API key"))
           ELSE IF get_tweet(idx) = {}
           THEN Reply(HTTPException(r, 404, "Tweet not found"))
           ELSE /\ lastId.likes + Pending("like", "check")
                       + Pending("like", "commit") < MaxLikeRows
                /\ Accept([r EXCEPT !.pc = "check"])
    /\ UNCHANGED store

\* like_to_tweet: the existence check (routers.py 232-236)
like_to_tweet_check(r) ==
    /\ r \in BagToSet(req) /\ r.op = "like" /\ r.pc = "check"
    /\ IF existing_like(r.user, r.idx) # {}
       THEN Finish(r, HTTPException(r, 400, "You have already liked this tweet"))
       ELSE Goto(r, [r EXCEPT !.pc = "commit"])
    /\ UNCHANGED store

\* like_to_tweet: db.add(new_like); await db.commit() (routers.py 238-243)
like_to_tweet_commit(r) ==
    /\ r \in BagToSet(req) /\ r.op = "like" /\ r.pc = "commit"
    /\ IF likes_accepts(likes, r.user, r.idx)
       THEN /\ likes' = likes \cup
                  {[id |-> lastId.likes + 1, user_id |-> r.user, tweet_id |-> r.idx]}
            /\ lastId' = [lastId EXCEPT !.likes = @ + 1]
            /\ Finish(r, ResultTrue(r))
       ELSE /\ UNCHANGED <<likes, lastId>>
            /\ Finish(r, ServerError(r, "IntegrityError"))
    /\ UNCHANGED <<tweets, media, followers, bucket>>

\* remove_like: tweet = await db.get(Tweet, idx) (routers.py 261-264)
remove_like(key, idx) ==
    /\ FreeSlot
    /\ LET user == get_current_user(key)
           r == [Idle EXCEPT !.op = "unlike", !.user = user, !.idx = idx]
       IN  IF user = NULL
           THEN Reply(HTTPException(r, 403, "Invalid API key"))
           ELSE IF get_tweet(idx) = {}
           THEN Reply(HTTPException(r, 404, "Tweet not found"))
           ELSE Accept([r EXCEPT !.pc = "check"])
    /\ UNCHANGED store

\* remove_like: the existence check (routers.py 266-272);
\* scalars().first() takes any one of the rows found
remove_like_check(r) ==
    /\ r \in BagToSet(req) /\ r.op = "unlike" /\ r.pc = "check"
    /\ IF existing_like(r.user, r.idx) = {}
       THEN Finish(r, HTTPException(r, 400, "You haven't liked this tweet yet"))
       ELSE \E like \in existing_like(r.user, r.idx) :
                Goto(r, [r EXCEPT !.pc = "commit", !.row = like.id])
    /\ UNCHANGED store

\* remove_like: await db.delete(like); await db.commit() (routers.py 274-277)
remove_like_commit(r) ==
    /\ r \in BagToSet(req) /\ r.op = "unlike" /\ r.pc = "commit"
    /\ likes' = {l \in likes : l.id # r.row}
    /\ Finish(r, ResultTrue(r))
    /\ UNCHANGED <<tweets, media, followers, lastId, bucket>>

\* ------------------------------------------------------------ timeline
NoLike == [id |-> NULL, user_id |-> NULL, tweet_id |-> NULL]

\* select(Tweet).outerjoin(Like): a joined row per like of a tweet, and one
\* with a NULL like for a tweet without likes (routers.py 300-302)
outerjoin ==
    {j \in tweets \X likes : j[2].tweet_id = j[1].id}
        \cup {<<t, NoLike>> : t \in {x \in tweets : \A l \in likes : l.tweet_id # x.id}}

\* .where(Tweet.user_id.in_(following_ids)) (routers.py 303)
where_in(joined, following_ids) == {j \in joined : j[1].user_id \in following_ids}

\* .group_by(Tweet.id) with func.count(Like.id): the tweets of the joined rows,
\* each with the number of its rows whose like id is not NULL (routers.py 304-305)
count_like_id(joined, t) ==
    Cardinality({j \in joined : j[1].id = t.id /\ j[2].id # NULL})

\* .order_by(func.count(Like.id).desc()) (routers.py 305): the orders the
\* statement may return the grouped tweets in; ties are the database's choice
order_by_asc(joined, s) ==
    \A i, j \in 1..Len(s) :
        i < j => count_like_id(joined, s[i]) <= count_like_id(joined, s[j])
order_by_desc(joined, s) ==
    \A i, j \in 1..Len(s) :
        i < j => count_like_id(joined, s[i]) >= count_like_id(joined, s[j])

tweets_by_following(following_ids) ==
    LET joined == where_in(outerjoin, following_ids)
    IN  {s \in Orderings({j[1] : j \in joined}) : order_by_desc(joined, s)}

\* select(Follow.follower_id).where(Follow.user_id == user.id) (routers.py 294-297)
following_ids_reversed(user) ==
    {row.user_id : row \in {f \in followers : f.follower_id = user}}
following_ids_of(user) ==
    {row.follower_id : row \in {f \in followers : f.user_id = user}}

\* UserOut(id=..., name=...)
UserOut(u) == [id |-> u, name |-> name(u)]

\* TweetOut(...) of a loaded tweet and its loaded likes (routers.py 309-321)
TweetOut_author_name(tweet, tweet_likes) ==
    [id |-> tweet.id,
     attachments |-> IF tweet.attachment = NoAttachment THEN <<>> ELSE tweet.attachment,
     user |-> UserOut(tweet.user_id),
     likes |-> [i \in 1..Len(tweet_likes) |->
                   [user_id |-> tweet_likes[i].user_id,
                    name |-> name(tweet.user_id)]]]
TweetOut_without_attachments(tweet, tweet_likes) ==
    [id |-> tweet.id,
     attachments |-> <<>>,
     user |-> UserOut(tweet.user_id),
     likes |-> [i \in 1..Len(tweet_likes) |->
                   [user_id |-> tweet_likes[i].user_id,
                    name |-> name(tweet_likes[i].user_id)]]]
TweetOut(tweet, tweet_likes) ==
    [id |-> tweet.id,
     attachments |-> IF tweet.attachment = NoAttachment THEN <<>> ELSE tweet.attachment,
     user |-> UserOut(tweet.user_id),
     likes |-> [i \in 1..Len(tweet_likes) |->
                   [user_id |-> tweet_likes[i].user_id,
                    name |-> name(tweet_likes[i].user_id)]]]

\* get_tweets_by_followings: the ids the user follows (routers.py 294-297)
get_tweets_by_followings(key) ==
    /\ FreeSlot
    /\ LET user == get_current_user(key)
           r == [Idle EXCEPT !.op = "timeline", !.user = user]
       IN  IF user = NULL
           THEN Reply(HTTPException(r, 403, "Invalid API key"))
           ELSE Accept([r EXCEPT !.pc = "tweets", !.ids = following_ids_of(user)])
    /\ UNCHANGED store

\* get_tweets_by_followings: the statement that selects, groups and orders the
\* tweets (routers.py 299-306)
get_tweets_by_followings_tweets(r) ==
    /\ r \in BagToSet(req) /\ r.op = "timeline" /\ r.pc = "tweets"
    /\ \E s \in tweets_by_following(r.ids) :
           Goto(r, [r EXCEPT !.pc = "likes", !.out = s])
    /\ UNCHANGED store

\* get_tweets_by_followings: selectinload(Tweet.likes) loads the likes of the
\* tweets found with a statement of its own, then the response is built
\* (routers.py 301, 308-325)
get_tweets_by_followings_likes(r) ==
    /\ r \in BagToSet(req) /\ r.op = "timeline" /\ r.pc = "likes"
    /\ LET loaded(i) == Orderings({l \in likes : l.tweet_id = r.out[i].id})
       IN  \E tweet_likes \in [1..Len(r.out) -> UNION {loaded(i) : i \in 1..Len(r.out)}] :
             /\ \A i \in 1..Len(r.out) : tweet_likes[i] \in loaded(i)
             /\ Finish(r, [ResultTrue(r) EXCEPT !.tweets =
                    [i \in 1..Len(r.out) |-> TweetOut(r.out[i], tweet_likes[i])]])
    /\ UNCHANGED store

\* ------------------------------------------------------------ profiles
\* get_followers (services.py 60-79): the users joined to the follow rows whose
\* follower_id is the user, one UserOut per row, in the order the SELECT gives
get_followers(user) ==
    LET rows == {f \in followers : f.follower_id = user}
    IN  {[i \in 1..Len(s) |-> UserOut(s[i].user_id)] : s \in Orderings(rows)}

\* get_followings (services.py 82-101): the users joined to the follow rows
\* whose user_id is the user
get_followings_of_followers(user) ==
    LET rows == {f \in followers : f.follower_id = user}
    IN  {[i \in 1..Len(s) |-> UserOut(s[i].user_id)] : s \in Orderings(rows)}
get_followings(user) ==
    LET rows == {f \in followers : f.user_id = user}
    IN  {[i \in 1..Len(s) |-> UserOut(s[i].follower_id)] : s \in Orderings(rows)}

\* get_user_info: followers = await get_followers(user, db) (routers.py 328-340)
get_user_info(key) ==
    /\ FreeSlot
    /\ LET user == get_current_user(key)
           r == [Idle EXCEPT !.op = "me", !.user = user]
       IN  IF user = NULL
           THEN Reply(HTTPException(r, 403, "Invalid API key"))
           ELSE \E users \in get_followers(user) :
                    Accept([r EXCEPT !.pc = "followings", !.row = user, !.out = users])
    /\ UNCHANGED store

\* get_user_info_by_id: user = await get_user_by_id(idx, db); followers = await
\* get_followers(user, db) (routers.py 352-368); no credential is asked for
get_user_info_by_id(idx) ==
    /\ FreeSlot
    /\ LET user == get_user_by_id(idx)
           r == [Idle EXCEPT !.op = "profile", !.idx = idx]
       IN  IF user = NULL
           THEN Reply(HTTPException(r, 404, "User not found"))
           ELSE \E users \in get_followers(user) :
                    Accept([r EXCEPT !.pc = "followings", !.row = user, !.out = users])
    /\ UNCHANGED store

\* both routes: followings = await get_followings(user, db); return UserResponse
\* (routers.py 341-349, 369-375)
get_user_info_followings(r) ==
    /\ r \in BagToSet(req) /\ r.op \in {"me", "profile"} /\ r.pc = "followings"
    /\ \E users \in get_followings(r.row) :
           Finish(r, [ResultTrue(r) EXCEPT !.id = r.row, !.followers = r.out,
                                           !.followings = users])
    /\ UNCHANGED store

\* ------------------------------------------------------------ credentials
\* the routes that depend on get_current_user, with their path parameters
AuthRoutes ==
    ({"create", "timeline", "me"} \X {NULL})
        \cup ({"follow", "unfollow"} \X UserIds)
        \cup ({"delete", "like", "unlike"} \X TweetIds)

\* api_key: str = Header(...) (services.py 13): a request of such a route that
\* carries no api-key header fails request validation; the framework answers
\* 422 and neither get_current_user nor the handler runs
missing_api_key(route) ==
    /\ FreeSlot
    /\ Reply(Response(route[1], NULL, route[2], 422, "Field required"))
    /\ UNCHANGED store

\* ------------------------------------------------------------ the system
Init ==
    /\ tweets = {}
    /\ media = {}
    /\ followers = {}
    /\ likes = {}
    /\ lastId = [tweets |-> 0, media |-> 0, followers |-> 0, likes |-> 0]
    /\ bucket = {}
    /\ req = EmptyBag
    /\ resp = NoResp
    /\ client = NoScenario

\* no request is being handled
Quiet == req = EmptyBag

\* the social graph routes, requests running concurrently
NextGraph ==
    \/ \E key \in ApiKeys, idx \in UserIds : follow_user(key, idx)
    \/ \E r \in BagToSet(req) : follow_user_commit(r)
    \/ \E key \in ApiKeys, idx \in UserIds : unfollow_user(key, idx)
    \/ \E r \in BagToSet(req) : unfollow_user_commit(r)

SpecGraph == Init /\ [][NextGraph]_vars

\* the tweet and like routes (tweets without media), requests running concurrently
NextLikes ==
    \/ \E key \in ApiKeys : create_new_tweet(key, {})
    \/ \E key \in ApiKeys, idx \in TweetIds : delete_own_tweet(key, idx)
    \/ \E r \in BagToSet(req) : delete_own_tweet_commit(r)
    \/ \E key \in ApiKeys, idx \in TweetIds : like_to_tweet(key, idx)
    \/ \E r \in BagToSet(req) : like_to_tweet_check(r)
    \/ \E r \in BagToSet(req) : like_to_tweet_commit(r)
    \/ \E key \in ApiKeys, idx \in TweetIds : remove_like(key, idx)
    \/ \E r \in BagToSet(req) : remove_like_check(r)
    \/ \E r \in BagToSet(req) : remove_like_commit(r)

SpecLikes == Init /\ [][NextLikes]_vars

\* the social graph routes, one request at a time
NextGraphSeq ==
    \/ /\ Quiet
       /\ \/ \E key \in ApiKeys, idx \in UserIds : follow_user(key, idx)
          \/ \E key \in ApiKeys, idx \in UserIds : unfollow_user(key, idx)
    \/ \E r \in BagToSet(req) : follow_user_commit(r)
    \/ \E r \in BagToSet(req) : unfollow_user_commit(r)

SpecGraphSeq == Init /\ [][NextGraphSeq]_vars

\* ------------------------------------------------- the follow scenario
\* The scenario of tests/test_api.py (test_follow_user, test_unfollow_user,
\* test_unfollow_not_following) run from any store: the client picks a pair
\* (x, y) without a follow row, records the table, and sends follow, unfollow,
\* unfollow, follow for the pair, reading each response before the next request.
ScenarioNext(pc) ==
    CASE pc = "follow" -> "unfollow"
      [] pc = "unfollow" -> "unfollow2"
      [] pc = "unfollow2" -> "follow2"
      [] OTHER -> "done"

round_trip_begin(x, y) ==
    /\ client.pc = "idle" /\ Quiet
    /\ x # y
    /\ existing_follow(x, y) = {}
    /\ client' = [pc |-> "follow", x |-> x, y |-> y, before |-> followers]
    /\ resp' = NoResp
    /\ UNCHANGED <<store, req>>

\* the client has the response of its request and goes on to the next one
round_trip_read ==
    /\ client.pc \in {"follow", "unfollow", "unfollow2", "follow2"}
    /\ Quiet /\ resp # NoResp
    /\ client' = [client EXCEPT !.pc = ScenarioNext(client.pc)]
    /\ resp' = NoResp
    /\ UNCHANGED <<store, req>>

\* any requests of the graph routes one after another, then the scenario
NextRoundTrip ==
    \/ /\ client.pc = "idle" /\ Quiet
       /\ \/ \E key \in ApiKeys, idx \in UserIds : follow_user(key, idx)
          \/ \E key \in ApiKeys, idx \in UserIds : unfollow_user(key, idx)
    \/ \E x, y \in Users : round_trip_begin(x, y)
    \/ /\ client.pc \in {"follow", "follow2"} /\ Quiet /\ resp = NoResp
       /\ follow_user(api_key(client.x), client.y)
    \/ /\ client.pc \in {"unfollow", "unfollow2"} /\ Quiet /\ resp = NoResp
       /\ unfollow_user(api_key(client.x), client.y)
    \/ \E r \in BagToSet(req) : follow_user_commit(r)
    \/ \E r \in BagToSet(req) : unfollow_user_commit(r)
    \/ round_trip_read

SpecRoundTrip == Init /\ [][NextRoundTrip]_vars

\* the graph and profile routes, one request at a time
NextProfile ==
    \/ /\ Quiet
       /\ \/ \E key \in ApiKeys, idx \in UserIds : follow_user(key, idx)
          \/ \E key \in ApiKeys, idx \in UserIds : unfollow_user(key, idx)
          \/ \E key \in ApiKeys : get_user_info(key)
          \/ \E idx \in UserIds : get_user_info_by_id(idx)
    \/ \E r \in BagToSet(req) : follow_user_commit(r)
    \/ \E r \in BagToSet(req) : unfollow_user_commit(r)
    \/ \E r \in BagToSet(req) : get_user_info_followings(r)

SpecProfile == Init /\ [][NextProfile]_vars

\* the store once user 1 has followed user 2 and then user 3 (two follow_user
\* requests on the empty store); users 2 and 3 follow nobody
InitFollowing ==
    /\ tweets = {}
    /\ media = {}
    /\ followers = {[id |-> 1, user_id |-> 1, follower_id |-> 2],
                    [id |-> 2, user_id |-> 1, follower_id |-> 3]}
    /\ likes = {}
    /\ lastId = [tweets |-> 0, media |-> 0, followers |-> 2, likes |-> 0]
    /\ bucket = {}
    /\ req = EmptyBag
    /\ resp = NoResp
    /\ client = NoScenario

\* the media, tweet, like and timeline routes, one request at a time
NextTweets ==
    \/ /\ Quiet
       /\ \/ \E key \in ApiKeys, ids \in SUBSET MediaIds : create_new_tweet(key, ids)
          \/ \E outcome \in S3Outcomes : upload_media(outcome)
          \/ \E key \in ApiKeys, idx \in TweetIds : delete_own_tweet(key, idx)
          \/ \E key \in ApiKeys, idx \in TweetIds : like_to_tweet(key, idx)
          \/ \E key \in ApiKeys, idx \in TweetIds : remove_like(key, idx)
          \/ \E key \in ApiKeys : get_tweets_by_followings(key)
    \/ \E r \in BagToSet(req) : create_new_tweet_attach(r)
    \/ \E r \in BagToSet(req) : delete_own_tweet_commit(r)
    \/ \E r \in BagToSet(req) : like_to_tweet_check(r)
    \/ \E r \in BagToSet(req) : like_to_tweet_commit(r)
    \/ \E r \in BagToSet(req) : remove_like_check(r)
    \/ \E r \in BagToSet(req) : remove_like_commit(r)
    \/ \E r \in BagToSet(req) : get_tweets_by_followings_tweets(r)
    \/ \E r \in BagToSet(req) : get_tweets_by_followings_likes(r)

SpecTweets == InitFollowing /\ [][NextTweets]_vars

\* The timeline is a read of the store.  The stores it is applied to: any follow
\* rows without a self-follow or a repeated pair, tweets 1..n of any authors, any
\* like rows on those tweets (a pair may repeat: the table has no unique
\* constraint), within the bounds; the ids of the follow and like rows, which the
\* timeline never reads, are given in one order.
FollowTables ==
    LET Pairs == {p \in Users \X Users : p[1] # p[2]}
        Before(p, q) == p[1] < q[1] \/ (p[1] = q[1] /\ p[2] < q[2])
        Table(P) == {[id |-> 1 + Cardinality({q \in P : Before(q, p)}),
                      user_id |-> p[1], follower_id |-> p[2]] : p \in P}
    IN  {Table(P) : P \in {Q \in SUBSET Pairs : Cardinality(Q) <= MaxFollowRows}}

TweetTables ==
    {rows \in SUBSET [id : TweetIds, user_id : Users, attachment : {NoAttachment}] :
        /\ {row.id : row \in rows} = 1..Cardinality(rows)
        /\ \A a, b \in rows : a.id = b.id => a = b}

LikeTables(tweet_rows) ==
    {rows \in SUBSET [id : 1..MaxLikeRows, user_id : Users,
                      tweet_id : {t.id : t \in tweet_rows}] :
        /\ {row.id : row \in rows} = 1..Cardinality(rows)
        /\ \A a, b \in rows :
              a.id <= b.id /\ a # b =>
                  /\ a.id < b.id
                  /\ \/ a.tweet_id < b.tweet_id
                     \/ a.tweet_id = b.tweet_id /\ a.user_id <= b.user_id}

InitTimeline ==
    /\ tweets \in TweetTables
    /\ media = {}
    /\ followers \in FollowTables
    /\ likes \in LikeTables(tweets)
    /\ lastId = [tweets |-> Cardinality(tweets), media |-> 0,
                 followers |-> Cardinality(followers), likes |-> Cardinality(likes)]
    /\ bucket = {}
    /\ req = EmptyBag
    /\ resp = NoResp
    /\ client = NoScenario

NextTimeline ==
    \/ Quiet /\ \E key \in ApiKeys : get_tweets_by_followings(key)
    \/ \E r \in BagToSet(req) : get_tweets_by_followings_tweets(r)
    \/ \E r \in BagToSet(req) : get_tweets_by_followings_likes(r)

SpecTimeline == InitTimeline /\ [][NextTimeline]_vars

\* Every route applied to every store: one request of any route, with or
\* without a credential, handled alone on any of the stores of InitTimeline
\* that hold at most MaxRequestRows follow rows and as many like rows.
InitRequest ==
    /\ InitTimeline
    /\ Cardinality(followers) <= MaxRequestRows
    /\ Cardinality(likes) <= MaxRequestRows

NextRequest ==
    \/ /\ Quiet /\ resp = NoResp
       /\ \/ \E key \in ApiKeys, ids \in SUBSET MediaIds : create_new_tweet(key, ids)
          \/ \E outcome \in S3Outcomes : upload_media(outcome)
          \/ \E key \in ApiKeys, idx \in TweetIds : delete_own_tweet(key, idx)
          \/ \E key \in ApiKeys, idx \in UserIds : follow_user(key, idx)
          \/ \E key \in ApiKeys, idx \in UserIds : unfollow_user(key, idx)
          \/ \E key \in ApiKeys, idx \in TweetIds : like_to_tweet(key, idx)
          \/ \E key \in ApiKeys, idx \in TweetIds : remove_like(key, idx)
          \/ \E key \in ApiKeys : get_tweets_by_followings(key)
          \/ \E key \in ApiKeys : get_user_info(key)
          \/ \E idx \in UserIds : get_user_info_by_id(idx)
          \/ \E route \in AuthRoutes : missing_api_key(route)
    \/ \E r \in BagToSet(req) : create_new_tweet_attach(r)
    \/ \E r \in BagToSet(req) : delete_own_tweet_commit(r)
    \/ \E r \in BagToSet(req) : follow_user_commit(r)
    \/ \E r \in BagToSet(req) : unfollow_user_commit(r)
    \/ \E r \in BagToSet(req) : like_to_tweet_check(r)
    \/ \E r \in BagToSet(req) : like_to_tweet_commit(r)
    \/ \E r \in BagToSet(req) : remove_like_check(r)
    \/ \E r \in BagToSet(req) : remove_like_commit(r)
    \/ \E r \in BagToSet(req) : get_tweets_by_followings_tweets(r)
    \/ \E r \in BagToSet(req) : get_tweets_by_followings_likes(r)
    \/ \E r \in BagToSet(req) : get_user_info_followings(r)

SpecRequest == InitRequest /\ [][NextRequest]_vars

\* The tweet tables of TweetTables with the media table beside them: no media
\* row, or media row 1 not attached, or media row 1 attached in turn to the
\* tweets of a set S, each of which copied its link, the row pointing at the
\* latest of them (routers.py 60-71).
AttachedTables ==
    LET link == file_link(1)
        row(t) == [id |-> 1, file_link |-> link, tweet_id |-> t]
        Latest(S) == CHOOSE t \in S : \A u \in S : u <= t
        With(rows, S) == {IF t.id \in S THEN [t EXCEPT !.attachment = <<link>>]
                          ELSE t : t \in rows}
    IN  UNION {{<<rows, {}>>, <<rows, {row(NULL)}>>} \cup
               {<<With(rows, S), {row(Latest(S))}>> :
                    S \in SUBSET {t.id : t \in rows} \ {{}}} :
               rows \in TweetTables}

\* the stores of InitRequest, and the same stores with an uploaded media file
InitRequestMedia ==
    /\ \E tables \in AttachedTables : tweets = tables[1] /\ media = tables[2]
    /\ followers \in {rows \in FollowTables : Cardinality(rows) <= MaxRequestRows}
    /\ likes \in {rows \in LikeTables(tweets) : Cardinality(rows) <= MaxRequestRows}
    /\ lastId = [tweets |-> Cardinality(tweets), media |-> Cardinality(media),
                 followers |-> Cardinality(followers), likes |-> Cardinality(likes)]
    /\ bucket = {m.file_link : m \in media}
    /\ req = EmptyBag
    /\ resp = NoResp
    /\ client = NoScenario

SpecRequestMedia == InitRequestMedia /\ [][NextRequest]_vars

\* the media, tweet and timeline routes, requests running concurrently, on the
\* store where user 1 follows users 2 and 3
NextAttach ==
    \/ \E key \in ApiKeys, ids \in SUBSET MediaIds : create_new_tweet(key, ids)
    \/ \E r \in BagToSet(req) : create_new_tweet_attach(r)
    \/ \E outcome \in S3Outcomes : upload_media(outcome)
    \/ \E key \in ApiKeys, idx \in TweetIds : delete_own_tweet(key, idx)
    \/ \E r \in BagToSet(req) : delete_own_tweet_commit(r)
    \/ \E key \in ApiKeys : get_tweets_by_followings(key)
    \/ \E r \in BagToSet(req) : get_tweets_by_followings_tweets(r)
    \/ \E r \in BagToSet(req) : get_tweets_by_followings_likes(r)

SpecAttach == InitFollowing /\ [][NextAttach]_vars

\* One request of a follow, unfollow, like or unlike route, handled alone on
\* any of the stores of InitTimeline.
NextEdge ==
    \/ /\ Quiet /\ resp = NoResp
       /\ \/ \E key \in ApiKeys, idx \in UserIds : follow_user(key, idx)
          \/ \E key \in ApiKeys, idx \in UserIds : unfollow_user(key, idx)
          \/ \E key \in ApiKeys, idx \in TweetIds : like_to_tweet(key, idx)
          \/ \E key \in ApiKeys, idx \in TweetIds : remove_like(key, idx)
    \/ \E r \in BagToSet(req) : follow_user_commit(r)
    \/ \E r \in BagToSet(req) : unfollow_user_commit(r)
    \/ \E r \in BagToSet(req) : like_to_tweet_check(r)
    \/ \E r \in BagToSet(req) : like_to_tweet_commit(r)
    \/ \E r \in BagToSet(req) : remove_like_check(r)
    \/ \E r \in BagToSet(req) : remove_like_commit(r)

SpecEdge == InitTimeline /\ [][NextEdge]_vars

\* ------------------------------------------------------------ properties
\* the like rows on tweet t
LikesOn(t) == {l \in likes : l.tweet_id = t}
\* tweet id t was given to a tweet that is no longer in the table
Gone(t) == t <= lastId.tweets /\ get_tweet(t) = {}

\* C1: in every reachable state, whatever the interleaving of follow requests
\* that check and then insert, the followers table holds at most one row for
\* an ordered pair (X, Y).
C1_OneFollowPerPair ==
    \A x, y \in Users : Cardinality(existing_follow(x, y)) <= 1

\* two follows of one pair raced: the one that inserted second was refused
C1_Witness ==
    /\ resp.op = "follow" /\ resp.status = 500
    /\ existing_follow(resp.user, resp.idx) # {}

\* C2: in every reachable state, whatever the interleaving of like requests of
\* one user on one tweet, the likes table holds at most one row for a
\* (user, tweet) pair.
C2_OneLikePerPair ==
    \A u \in Users, t \in TweetIds : Cardinality(existing_like(u, t)) <= 1

\* C3: no follow row (X, X) exists in any reachable state; a follow of oneself
\* is answered 400 "You cannot follow yourself" whatever rows exist, and the
\* step that answers it leaves the followers table as it was.
C3_NoSelfFollow ==
    /\ [](\A row \in followers : row.user_id # row.follower_id)
    /\ [][(resp'.op = "follow" /\ resp'.user # NULL /\ resp'.user = resp'.idx)
            => /\ resp'.status = 400
               /\ resp'.detail = "You cannot follow yourself"
               /\ followers' = followers]_vars

\* a self-follow was answered while its actor already followed somebody
C3_Witness ==
    /\ resp.op = "follow" /\ resp.user # NULL /\ resp.user = resp.idx
    /\ resp.status = 400
    /\ \E row \in followers : row.user_id = resp.user

\* C4: the timeline of a viewer lists exactly the tweets whose author the
\* viewer follows, each once, and none of another author; it is a success also
\* when the viewer follows nobody, the list then being empty.
C4_TimelineTweets ==
    (resp.op = "timeline" /\ resp.user # NULL) =>
        LET followed == {t \in tweets : \E f \in followers :
                            f.user_id = resp.user /\ f.follower_id = t.user_id}
        IN  /\ resp.status = 200
            /\ {resp.tweets[i].id : i \in 1..Len(resp.tweets)} = {t.id : t \in followed}
            /\ Len(resp.tweets) = Cardinality(followed)
            /\ \A i \in 1..Len(resp.tweets) : \E t \in followed :
                   t.id = resp.tweets[i].id /\ t.user_id = resp.tweets[i].user.id

\* a timeline that lists one tweet while the store holds one of an author the
\* viewer does not follow
C4_Witness ==
    /\ resp.op = "timeline" /\ resp.status = 200
    /\ Len(resp.tweets) = 1
    /\ \E t \in tweets : t.id # resp.tweets[1].id /\ t.user_id # resp.user

\* C5: the timeline is ordered by non-increasing like count: of two
\* consecutive tweets the earlier has at least as many like rows as the later.
C5_TimelineOrder ==
    (resp.op = "timeline" /\ resp.status = 200) =>
        \A i \in 1..(Len(resp.tweets) - 1) :
            Cardinality(LikesOn(resp.tweets[i].id))
                >= Cardinality(LikesOn(resp.tweets[i + 1].id))

\* a timeline whose first tweet has two likes and whose second has none
C5_Witness ==
    /\ resp.op = "timeline" /\ resp.status = 200
    /\ Len(resp.tweets) = 2
    /\ Cardinality(LikesOn(resp.tweets[1].id)) = 2
    /\ Cardinality(LikesOn(resp.tweets[2].id)) = 0

\* C6: a delete by the author of a tweet that has like rows succeeds and
\* removes the tweet and every like row that refers to it.
C6_DeleteLikedTweet ==
    [][(/\ resp'.op = "delete" /\ resp'.user # NULL
        /\ \E t \in get_tweet(resp'.idx) : t.user_id = resp'.user
        /\ LikesOn(resp'.idx) # {})
          => /\ resp'.status = 200
             /\ tweets' = {t \in tweets : t.id # resp'.idx}
             /\ likes' = likes \ LikesOn(resp'.idx)]_vars

\* C7: a delete of an existing tweet by a user who is not its author is
\* answered 403 and leaves the tweets (their attachments with them), the media
\* and the likes exactly as they were.
C7_DeleteForbidden ==
    [][(/\ resp'.op = "delete" /\ resp'.user # NULL
        /\ \E t \in get_tweet(resp'.idx) : t.user_id # resp'.user)
          => /\ resp'.status = 403
             /\ resp'.detail = "You can only delete your own tweets"
             /\ tweets' = tweets /\ media' = media /\ likes' = likes]_vars

\* a refused delete of a tweet that has an attachment and a like
C7_Witness ==
    /\ resp.op = "delete" /\ resp.status = 403 /\ resp.user # NULL
    /\ \E t \in get_tweet(resp.idx) :
          /\ t.attachment # NoAttachment /\ t.attachment # <<>>
          /\ LikesOn(t.id) # {}

\* C8: once a delete has succeeded the tweet exists no more, whatever follows:
\* its id is never given again, every later delete, like or unlike that names
\* it is answered 404, and no timeline lists it.
C8_DeletedStaysDeleted ==
    /\ []((resp.op = "delete" /\ resp.status = 200) => Gone(resp.idx))
    /\ [][\A t \in TweetIds : Gone(t) =>
            /\ Gone(t)'
            /\ (resp'.op \in {"delete", "like", "unlike"} /\ resp'.user # NULL
                   /\ resp'.idx = t)
                 => (resp'.status = 404 /\ resp'.detail = "Tweet not found")
            /\ resp'.op = "timeline"
                 => \A i \in 1..Len(resp'.tweets) : resp'.tweets[i].id # t]_vars

\* a like of a deleted tweet was answered 404 after a later tweet was created
C8_Witness ==
    /\ resp.op = "like" /\ resp.status = 404 /\ Gone(resp.idx)
    /\ \E t \in tweets : t.id > resp.idx

\* C9: a follow succeeds exactly when the target exists, is not the actor and
\* no row (actor, target) exists; a success adds exactly one row, (actor,
\* target); a request goes on to its insert only when its check found all
\* three, so that a follow of a pair already followed, run alone, is answered
\* 400 "You are already following this user".
C9_Follow ==
    [][/\ (resp'.op = "follow" /\ resp'.user # NULL) =>
            LET actor == resp'.user
                target == resp'.idx
                free == /\ target \in Users /\ actor # target
                        /\ existing_follow(actor, target) = {}
            IN  /\ resp'.status = 200 <=> free
                /\ resp'.status = 200 =>
                      /\ followers \subseteq followers'
                      /\ Cardinality(followers' \ followers) = 1
                      /\ \A row \in followers' \ followers :
                            row.user_id = actor /\ row.follower_id = target
                /\ (target \in Users /\ actor # target /\ req' = req /\ ~ free)
                      => /\ resp'.status = 400
                         /\ resp'.detail = "You are already following this user"
       /\ \A r \in BagToSet(req') :
            (r.op = "follow" /\ r.pc = "commit"
                /\ (r \notin BagToSet(req) \/ req'[r] > req[r]))
              => /\ r.idx \in Users /\ r.user # r.idx
                 /\ existing_follow(r.user, r.idx) = {}]_vars

\* a follow succeeded and the table now holds two rows
C9_Witness ==
    /\ resp.op = "follow" /\ resp.status = 200
    /\ existing_follow(resp.user, resp.idx) # {}
    /\ Cardinality(followers) = 2

\* C10: an unfollow of an existing user succeeds exactly when a row (actor,
\* target) exists, and after a success no such row exists; without the row it
\* is answered 400 "You are not following this user".
C10_Unfollow ==
    [][(resp'.op = "unfollow" /\ resp'.user # NULL /\ resp'.idx \in Users) =>
          LET actor == resp'.user
              target == resp'.idx
          IN  /\ resp'.status = 200 <=> existing_follow(actor, target) # {}
              /\ resp'.status = 200 =>
                    /\ {row \in followers' :
                           row.user_id = actor /\ row.follower_id = target} = {}
              /\ resp'.status # 200 =>
                    /\ resp'.status = 400
                    /\ resp'.detail = "You are not following this user"]_vars

\* an unfollow succeeded while the reverse row (target, actor) stays
C10_Witness ==
    /\ resp.op = "unfollow" /\ resp.status = 200
    /\ existing_follow(resp.user, resp.idx) = {}
    /\ existing_follow(resp.idx, resp.user) # {}

\* C11: round trip.  From any store without a row for (x, y): follow(x, y)
\* succeeds; the unfollow(x, y) that follows succeeds and leaves the follow table
\* exactly as it was before the follow; a further unfollow(x, y) answers 400
\* "You are not following this user" and changes nothing; a further follow(x, y)
\* succeeds and adds the pair again.
FollowPairs(rows) == {<<row.user_id, row.follower_id>> : row \in rows}

C11_RoundTrip ==
    (Quiet /\ resp # NoResp) =>
        /\ client.pc = "follow" =>
              /\ resp.status = 200
              /\ FollowPairs(followers) =
                    FollowPairs(client.before) \cup {<<client.x, client.y>>}
        /\ client.pc = "unfollow" =>
              /\ resp.status = 200
              /\ followers = client.before
        /\ client.pc = "unfollow2" =>
              /\ resp.status = 400
              /\ resp.detail = "You are not following this user"
              /\ followers = client.before
        /\ client.pc = "follow2" =>
              /\ resp.status = 200
              /\ FollowPairs(followers) =
                    FollowPairs(client.before) \cup {<<client.x, client.y>>}
              /\ Cardinality(followers) = Cardinality(client.before) + 1

\* the whole scenario has run from a store that held another edge of x
C11_Witness ==
    /\ client.pc = "follow2" /\ Quiet /\ resp.op = "follow" /\ resp.status = 200
    /\ \E row \in client.before : row.user_id = client.x

\* C12: a like of an existing tweet by any user (its author or not, following
\* the author or not) succeeds exactly when no row (user, tweet) exists; a
\* success adds exactly one row, (user, tweet); a like whose existence check
\* finds the row is answered 400 "You have already liked this tweet".
C12_Like ==
    [][(resp'.op = "like" /\ resp'.user # NULL /\ get_tweet(resp'.idx) # {}) =>
            LET user == resp'.user
                tweet == resp'.idx
                free == existing_like(user, tweet) = {}
            IN  /\ resp'.status = 200 <=> free
                /\ resp'.status = 200 =>
                      /\ likes \subseteq likes'
                      /\ Cardinality(likes' \ likes) = 1
                      /\ \A row \in likes' \ likes :
                            row.user_id = user /\ row.tweet_id = tweet
                /\ ~ free =>
                      /\ resp'.status = 400
                      /\ resp'.detail = "You have already liked this tweet"]_vars

\* C13: once an unlike has answered 200, no row (user, tweet) exists, and an
\* unlike whose existence check then finds no row is answered 400 "You haven't
\* liked this tweet yet"; whatever like and unlike requests ran before, one
\* after another or concurrently.
C13_UnlikeRemoves ==
    /\ []((resp.op = "unlike" /\ resp.status = 200)
              => existing_like(resp.user, resp.idx) = {})
    /\ [][\A r \in BagToSet(req) :
            (/\ r.op = "unlike" /\ r.pc = "check"
             /\ existing_like(r.user, r.idx) = {}
             /\ req' = req (-) SetToBag({r}))
              => /\ resp'.op = "unlike" /\ resp'.status = 400
                 /\ resp'.detail = "You haven't liked this tweet yet"]_vars

\* C14: when two follows of one pair race, both past the existence check before
\* either inserts, one succeeds and the other is answered like a duplicate
\* follow run alone: 400 "You are already following this user", no other error.
\* The follow that comes to its insert when the row exists is the loser.
C14_RaceConflict ==
    [][\A r \in BagToSet(req) :
          (/\ r.op = "follow" /\ r.pc = "commit"
           /\ req' = req (-) SetToBag({r}))
            => IF existing_follow(r.user, r.idx) = {}
               THEN resp'.status = 200
               ELSE /\ resp'.status = 400
                    /\ resp'.detail = "You are already following this user"]_vars

\* C15: existence comes first.  A follow or unfollow by a user that names a user
\* id no user has is answered 404 "User not found"; a like, unlike or delete by
\* a user that names a tweet id no tweet has is answered 404 "Tweet not found";
\* whatever rows the tables hold, never 400 or 403.
C15_ExistenceFirst ==
    [][/\ (/\ resp'.op \in {"follow", "unfollow"}
           /\ resp'.user # NULL /\ resp'.idx \notin Users)
            => resp'.status = 404 /\ resp'.detail = "User not found"
       /\ (/\ resp'.op \in {"like", "unlike", "delete"}
           /\ resp'.user # NULL /\ \A t \in tweets : t.id # resp'.idx)
            => resp'.status = 404 /\ resp'.detail = "Tweet not found"]_vars

\* an unlike of a missing tweet by a user who has a like on another tweet
C15_Witness ==
    /\ resp.op = "unlike" /\ resp.status = 404
    /\ \E l \in likes : l.user_id = resp.user

\* C16: a request of a route that asks for a credential, sent without the header
\* or with a key no user holds, is answered 403 whatever it names, and the store
\* is unchanged.
C16_Unauthorized ==
    [][(/\ resp'.op \in {"create", "delete", "follow", "unfollow",
                         "like", "unlike", "timeline", "me"}
        /\ resp'.user = NULL)
          => /\ resp'.status = 403
             /\ store' = store]_vars

\* C17: no create by a user fails, whatever media ids it names: the tweet is
\* stored with the links of the media rows its ids name, once each, and nothing
\* for an id that names none; with only such ids its attachment list is empty.
Resolved(ids) == {m \in media : m.id \in ids}

C17_CreateDropsUnresolved ==
    [][/\ (resp'.op = "create" /\ resp'.user # NULL) => resp'.status = 200
       /\ \A r \in BagToSet(req) :
            (r.op = "create" /\ r.pc = "attach" /\ req' = req (-) SetToBag({r}))
              => \E t \in tweets' :
                    /\ t.id = r.row /\ t.id = resp'.id
                    /\ t.attachment \in Seq({m.file_link : m \in Resolved(r.ids)})
                    /\ Len(t.attachment) = Cardinality(Resolved(r.ids))
                    /\ {t.attachment[i] : i \in 1..Len(t.attachment)}
                          = {m.file_link : m \in Resolved(r.ids)}
                    /\ Resolved(r.ids) = {} => t.attachment = <<>>]_vars

\* a tweet was created with an id that names no media while a media row exists
C17_Witness ==
    /\ resp.op = "create" /\ resp.status = 200 /\ media # {}
    /\ \E t \in tweets : t.id = resp.id /\ t.attachment = <<>>

\* C18: round trip.  A tweet created with the id of an uploaded media, with or
\* without ids that name no media, has exactly that media's stored link as its
\* attachment list, and a timeline that lists the tweet shows the tweet's
\* attachment list as stored.
C18_AttachmentRoundTrip ==
    /\ [][\A r \in BagToSet(req) :
            (r.op = "create" /\ r.pc = "attach" /\ req' = req (-) SetToBag({r}))
              => \A m \in media :
                    (m.id \in r.ids /\ Resolved(r.ids) = {m}) =>
                        /\ resp'.status = 200
                        /\ m.file_link = file_link(m.id)
                        /\ \E t \in tweets' :
                              t.id = resp'.id /\ t.attachment = <<m.file_link>>]_vars
    /\ []((resp.op = "timeline" /\ resp.status = 200) =>
            \A i \in 1..Len(resp.tweets) :
                \E t \in tweets :
                    /\ t.id = resp.tweets[i].id
                    /\ resp.tweets[i].attachments =
                          IF t.attachment = NoAttachment THEN <<>> ELSE t.attachment)

\* the timeline of a follower shows the uploaded media's link on the tweet
C18_Witness ==
    /\ resp.op = "timeline" /\ resp.status = 200
    /\ \E i \in 1..Len(resp.tweets), m \in media :
          /\ resp.tweets[i].attachments = <<m.file_link>>
          /\ m.tweet_id = resp.tweets[i].id

\* C19: every tweet of a timeline carries its author's id and name, and a list
\* of likes with one entry (liker's id, liker's name) per like row on the tweet:
\* as many entries of a user as the user has like rows on it, so that the length
\* of the list is the like count the tweets are ordered by.
C19_TimelineAnnotations ==
    (resp.op = "timeline" /\ resp.status = 200) =>
        \A i \in 1..Len(resp.tweets) :
            LET out == resp.tweets[i]
            IN  /\ \E t \in tweets :
                      /\ t.id = out.id
                      /\ out.user.id = t.user_id
                      /\ out.user.name = name(t.user_id)
                /\ Len(out.likes) = Cardinality(LikesOn(out.id))
                /\ \A u \in Users :
                      Cardinality({k \in 1..Len(out.likes) : out.likes[k].user_id = u})
                          = Cardinality({l \in LikesOn(out.id) : l.user_id = u})
                /\ \A k \in 1..Len(out.likes) :
                      /\ out.likes[k].user_id \in Users
                      /\ out.likes[k].name = name(out.likes[k].user_id)

\* a listed tweet with two likes, one of them by a user who is not its author
C19_Witness ==
    /\ resp.op = "timeline" /\ resp.status = 200
    /\ \E i \in 1..Len(resp.tweets) :
          /\ Len(resp.tweets[i].likes) = 2
          /\ resp.tweets[i].likes[1].user_id # resp.tweets[i].user.id

\* C20: a profile of user U lists as followers exactly the users X with a row
\* (X, U) and as followings exactly the users Y with a row (U, Y), each once,
\* with their names; U is in neither list.  So Y is in the followings of X
\* exactly when X is in the followers of Y: both say that the row (X, Y) exists.
Ids(list) == {list[i].id : i \in 1..Len(list)}

C20_Profile ==
    (resp.op \in {"me", "profile"} /\ resp.status = 200) =>
        LET U == resp.id
        IN  /\ U \in Users
            /\ resp.op = "me" => U = resp.user
            /\ resp.op = "profile" => U = resp.idx
            /\ Ids(resp.followers) =
                  {X \in Users : \E row \in followers :
                                    row.user_id = X /\ row.follower_id = U}
            /\ Ids(resp.followings) =
                  {Y \in Users : \E row \in followers :
                                    row.user_id = U /\ row.follower_id = Y}
            /\ Len(resp.followers) = Cardinality(Ids(resp.followers))
            /\ Len(resp.followings) = Cardinality(Ids(resp.followings))
            /\ U \notin Ids(resp.followers) \cup Ids(resp.followings)
            /\ \A i \in 1..Len(resp.followers) :
                  resp.followers[i].name = name(resp.followers[i].id)
            /\ \A i \in 1..Len(resp.followings) :
                  resp.followings[i].name = name(resp.followings[i].id)

\* a profile with a follower and a following that are different users
C20_Witness ==
    /\ resp.op \in {"me", "profile"} /\ resp.status = 200
    /\ Len(resp.followers) = 1 /\ Len(resp.followings) = 1
    /\ resp.followers[1].id # resp.followings[1].id

\* C21: an upload whose bytes the object storage did not store answers 500 and
\* adds no media row, so that the file of every media row is in the bucket.
\* (The links are fresh, one per upload: an upload that leaves the bucket as it
\* was is one whose put_object failed.)
C21_UploadFailure ==
    /\ [](\A m \in media : m.file_link \in bucket)
    /\ [][(resp'.op = "upload" /\ bucket' = bucket) =>
             (resp'.status = 500 /\ media' = media)]_vars

\* C22: a step that answers with an error (any status but 200) leaves the
\* tweets, media, follow rows and like rows as they were (the users table is
\* never written).  The steps of a delete, follow, unfollow, like or unlike
\* request that come before its answer write nothing: so the tables such a
\* request leaves when it fails are those it found.
C22_ErrorFrame ==
    [][/\ resp'.status \notin {0, 200} =>
             /\ tweets' = tweets /\ media' = media
             /\ followers' = followers /\ likes' = likes
       /\ (/\ resp' = NoResp
           /\ \E r \in BagToSet(req') :
                 /\ r.op \in {"delete", "follow", "unfollow", "like", "unlike"}
                 /\ CopiesIn(r, req') > CopiesIn(r, req)) =>
             /\ tweets' = tweets /\ media' = media
             /\ followers' = followers /\ likes' = likes]_vars

\* the delete of a liked tweet with an attached media file has failed (500)
C22_Witness ==
    /\ resp.op = "delete" /\ resp.status = 500
    /\ \E m \in media : m.tweet_id = resp.idx
    /\ \E l \in likes : l.tweet_id = resp.idx

\* C23: in every state, whatever the interleaving of like, unlike and delete
\* requests, every like row refers to a tweet that is in the tweets table and
\* to a user of the users table; so does the store after a like whose check
\* of the tweet came before a concurrent delete of that tweet.
C23_LikesRefer ==
    \A l \in likes : get_tweet(l.tweet_id) # {} /\ l.user_id \in Users

\* a like passed its checks, its tweet was then deleted, and its commit has
\* failed; a like row on the other tweet is stored
C23_Witness ==
    /\ resp.op = "like" /\ resp.status = 500
    /\ Gone(resp.idx)
    /\ likes # {}

\* C24: in every state a media row with a tweet_id refers to a tweet that is in
\* the table and whose attachment list holds the row's file_link; and a tweet
\* that has its list keeps it for as long as it exists, so that when a media id
\* is attached to a later tweet the row moves to that tweet while the earlier
\* tweet keeps its copy of the link.  Deleting a tweet clears the tweet_id.
C24_MediaAssociation ==
    /\ [](\A m \in media :
             m.tweet_id # NULL =>
                 \E t \in get_tweet(m.tweet_id) :
                     \E i \in 1..Len(t.attachment) : t.attachment[i] = m.file_link)
    /\ [][\A t \in tweets, u \in tweets' :
             (t.attachment # NoAttachment /\ u.id = t.id) =>
                 u.attachment = t.attachment]_vars

\* media row 1 was attached to tweet 1 and then to tweet 2, and tweet 2 has
\* been deleted: the row has no tweet and tweet 1 still holds the link
C24_Witness ==
    /\ resp.op = "delete" /\ resp.status = 200
    /\ Gone(2)
    /\ \E m \in media : m.tweet_id = NULL /\ m.file_link = file_link(1)
    /\ \E t \in get_tweet(1) : t.attachment = <<file_link(1)>>

\* C25: a follow or unfollow request of user X on user Y adds or removes only
\* follow rows of the pair (X, Y): the row of (Y, X), every other follow row,
\* the tweets, the media and the like rows stay as they are.  A like or unlike
\* request of user U on tweet T adds or removes only like rows of the pair
\* (U, T) and leaves the tweets, the media and the follow rows as they are.
\* The steps of these requests that do not answer yet write nothing.
EdgeOps == {"follow", "unfollow", "like", "unlike"}

Changed(before, after) == (after \ before) \cup (before \ after)

C25_EdgeFrame ==
    [][/\ resp'.op \in {"follow", "unfollow"} =>
             /\ tweets' = tweets /\ media' = media /\ likes' = likes
             /\ \A row \in Changed(followers, followers') :
                   row.user_id = resp'.user /\ row.follower_id = resp'.idx
       /\ resp'.op \in {"like", "unlike"} =>
             /\ tweets' = tweets /\ media' = media /\ followers' = followers
             /\ \A l \in Changed(likes, likes') :
                   l.user_id = resp'.user /\ l.tweet_id = resp'.idx
       /\ (/\ resp' = NoResp
           /\ \E r \in BagToSet(req') :
                 r.op \in EdgeOps /\ CopiesIn(r, req') > CopiesIn(r, req)) =>
             /\ tweets' = tweets /\ media' = media
             /\ followers' = followers /\ likes' = likes]_vars

\* X has followed Y while Y followed X, X followed someone else and a like row
\* was stored: the new row is there beside them
C25_Witness ==
    /\ resp.op = "follow" /\ resp.status = 200
    /\ existing_follow(resp.user, resp.idx) # {}
    /\ existing_follow(resp.idx, resp.user) # {}
    /\ Cardinality(followers) = 3
    /\ likes # {}

\* attachments=tweet.attachment if tweet.attachment else [] (routers.py 312)
Attachments(tweet) ==
    IF tweet.attachment = NoAttachment THEN <<>> ELSE tweet.attachment

\* C26 as stated: creation with attachments is atomic to a concurrent timeline
\* read: a listed tweet that is still stored is listed with the attachment list
\* it has in the store, and no create that will still attach a media file to it
\* is in flight.
C26_AtomicCreate ==
    (resp.op = "timeline" /\ resp.status = 200) =>
        \A i \in 1..Len(resp.tweets) :
            \A t \in get_tweet(resp.tweets[i].id) :
                /\ resp.tweets[i].attachments = Attachments(t)
                /\ \A r \in BagToSet(req) :
                      (r.op = "create" /\ r.pc = "attach" /\ r.row = t.id) =>
                          select_media(r.ids) = {}

\* C26, amended: creation is two commits, and a timeline read returns each
\* tweet as committed when its tweet query ran.  A listed tweet that is still
\* stored is listed with an empty attachment list or with the list it has in
\* the store; the rows the tweet query reads are rows of the tweets table at
\* that moment; and the response lists the attachments of the rows read.
C26_TwoStepCreate ==
    /\ []((resp.op = "timeline" /\ resp.status = 200) =>
             \A i \in 1..Len(resp.tweets) :
                 \A t \in get_tweet(resp.tweets[i].id) :
                     resp.tweets[i].attachments \in {<<>>, Attachments(t)})
    /\ [][\A r \in BagToSet(req), r2 \in BagToSet(req') :
             (/\ r.op = "timeline" /\ r.pc = "tweets"
              /\ r2.op = "timeline" /\ r2.pc = "likes"
              /\ req' = (req (-) SetToBag({r})) (+) SetToBag({r2})) =>
                 \A i \in 1..Len(r2.out) : r2.out[i] \in tweets]_vars
    /\ [][(resp'.op = "timeline" /\ resp'.status = 200) =>
             \E r \in BagToSet(req) :
                 /\ r.op = "timeline" /\ r.pc = "likes"
                 /\ req' = req (-) SetToBag({r})
                 /\ Len(resp'.tweets) = Len(r.out)
                 /\ \A i \in 1..Len(r.out) :
                       /\ resp'.tweets[i].id = r.out[i].id
                       /\ resp'.tweets[i].attachments = Attachments(r.out[i])]_vars

\* a timeline read between the two commits of a create: the tweet is listed
\* without attachments and holds its link in the store
C26_Witness ==
    /\ resp.op = "timeline" /\ resp.status = 200
    /\ \E i \in 1..Len(resp.tweets) :
          \E t \in get_tweet(resp.tweets[i].id) :
              /\ resp.tweets[i].attachments = <<>>
              /\ t.attachment = <<file_link(1)>>

====
